---- MODULE Spec2Model ----
(***************************************************************************)
(* A model of ov::template_plugin::CompiledModel                            *)
(* (src/plugins/template/src/compiled_model.cpp): construction and          *)
(* compilation, property access, export framing, request creation and the  *)
(* ownership of the model by its requests.                                  *)
(*                                                                          *)
(* Four specifications share the module:                                    *)
(*   Spec      - compile, export and import                                 *)
(*   SpecProps - construction, get_property and set_property                *)
(*   SpecLife  - shared ownership of one model by holders and requests      *)
(*   SpecAsync - the stage pipeline of asynchronous requests                *)
(***************************************************************************)
EXTENDS Integers, Sequences, FiniteSets, TLC

VARIABLES models, stream, last,
          use_count, holders, requests, destroyed,
          areqs, queue, running

vars == <<models, stream, last, use_count, holders, requests, destroyed,
          areqs, queue, running>>

mainVars == <<models, stream, last>>
lifeVars == <<use_count, holders, requests, destroyed>>
asyncVars == <<areqs, queue, running>>

(***************************************************************************)
(* Bounds of the model.                                                     *)
(***************************************************************************)
MaxOps == 2
MaxConsts == 1
MaxHolders == 2
MaxRequests == 4
MaxAsync == 2

SeqUpTo(S, n) == UNION {[1..k -> S] : k \in 0..n}

(***************************************************************************)
(* Graphs: a friendly name, the operations in topological order and the    *)
(* constants (weights) as bytes.                                            *)
(***************************************************************************)
Ops == {"add", "mul"}
ConstBytes == {200}
Names == {"net"}
Graphs == [name : Names, ops : SeqUpTo(Ops, MaxOps), consts : SeqUpTo(ConstBytes, MaxConsts)]

(***************************************************************************)
(* Configuration: the fields of m_cfg that compiled_model.cpp reads.        *)
(***************************************************************************)
Configurations ==
    {[disable_transformations |-> d, device_id |-> p[1], streams |-> p[2]] :
        d \in BOOLEAN, p \in {<<0, 1>>, <<1, 2>>}}

NoModel == [alive |-> FALSE]

(***************************************************************************)
(* transform_model: the plugin's graph transformer, an opaque collaborator *)
(* that rewrites the graph in place or throws.  `tr` is what it does in    *)
(* one call: its outcome and, when it returns, the graph it leaves.        *)
(***************************************************************************)
TransformOutcomes == {"ok", "ie_exception", "std_exception", "unknown"}
TransformFailures == TransformOutcomes \ {"ok"}

TransformResults(g) ==
    {g} \cup (IF g.ops = <<>> THEN {} ELSE {[g EXCEPT !.ops = Tail(g.ops)]})

Behaviours(g) ==
    [outcome : {"ok"}, result : TransformResults(g), what : {"-"}]
        \cup [outcome : TransformFailures, result : {g}, what : {"bad node"}]

transform_model(model, tr) ==
    IF tr.outcome = "ok"
    THEN [thrown |-> "none", what |-> "-", model |-> tr.result, calls |-> 1]
    ELSE [thrown |-> tr.outcome, what |-> tr.what, model |-> model, calls |-> 1]

(***************************************************************************)
(* CompiledModel::compile_model                                             *)
(***************************************************************************)
compile_model_always(m_cfg, model, tr) == transform_model(model, tr)

compile_model(m_cfg, model, tr) ==
    IF m_cfg.disable_transformations
    THEN [thrown |-> "none", what |-> "-", model |-> model, calls |-> 0]
    ELSE transform_model(model, tr)

(***************************************************************************)
(* CompiledModel::CompiledModel.  OPENVINO_THROW raises ov::Exception; the *)
(* message is kept as the sequence of its parts.                            *)
(***************************************************************************)
OvException == "ov::Exception"

Thrown(kind, message, calls) ==
    [ok |-> FALSE, error |-> kind, message |-> message, obj |-> NoModel, calls |-> calls]

Object(m_cfg, m_model, m_loaded_from_cache) ==
    [alive |-> TRUE, m_cfg |-> m_cfg, m_model |-> m_model,
     m_loaded_from_cache |-> m_loaded_from_cache]

CompiledModel_rethrow(model, cfg, loaded_from_cache, tr) ==
    LET c == compile_model(cfg, model, tr) IN
    CASE c.thrown = "none" ->
           [ok |-> TRUE, error |-> "none", message |-> <<>>,
            obj |-> Object(cfg, c.model, loaded_from_cache), calls |-> c.calls]
      [] c.thrown = "ie_exception" -> Thrown(OvException, <<c.what>>, c.calls)
      [] c.thrown = "std_exception" ->
           Thrown(OvException, <<"Standard exception from compilation library: ", c.what>>, c.calls)
      [] OTHER -> Thrown(c.thrown, <<>>, c.calls)

CompiledModel(model, cfg, loaded_from_cache, tr) ==
    LET c == compile_model(cfg, model, tr) IN
    CASE c.thrown = "none" ->
           [ok |-> TRUE, error |-> "none", message |-> <<>>,
            obj |-> Object(cfg, c.model, loaded_from_cache), calls |-> c.calls]
      [] c.thrown = "ie_exception" -> Thrown(OvException, <<c.what>>, c.calls)
      [] c.thrown = "std_exception" ->
           Thrown(OvException, <<"Standard exception from compilation library: ", c.what>>, c.calls)
      [] OTHER -> Thrown(OvException, <<"Generic exception is thrown">>, c.calls)

(***************************************************************************)
(* CompiledModel::get_runtime_model                                         *)
(***************************************************************************)
get_runtime_model(obj) == obj.m_model

(***************************************************************************)
(* Property names (openvino/runtime/properties.hpp, ie_plugin_config.hpp). *)
(***************************************************************************)
SUPPORTED_METRICS == "SUPPORTED_METRICS"
SUPPORTED_CONFIG_KEYS == "SUPPORTED_CONFIG_KEYS"
ov_model_name == "NETWORK_NAME"
ov_supported_properties == "SUPPORTED_PROPERTIES"
ov_execution_devices == "EXECUTION_DEVICES"
ov_loaded_from_cache == "LOADED_FROM_CACHE"
ov_optimal_number_of_infer_requests == "OPTIMAL_NUMBER_OF_INFER_REQUESTS"
ov_device_id == "DEVICE_ID"
ov_enable_profiling == "PERF_COUNT"
ov_num_streams == "NUM_STREAMS"
ov_disable_transformations == "DISABLE_TRANSFORMATIONS"

PropertyNames ==
    {SUPPORTED_METRICS, SUPPORTED_CONFIG_KEYS, ov_model_name, ov_supported_properties,
     ov_execution_devices, ov_loaded_from_cache, ov_optimal_number_of_infer_requests,
     ov_device_id, ov_num_streams, ov_disable_transformations, "nonexistent_key_xyz"}

(* A result is a value, printed as a sequence of strings, or a failure. *)
Value(v) == [ok |-> TRUE, error |-> "none", value |-> v]
Failure(kind) == [ok |-> FALSE, error |-> kind, value |-> <<>>]

(***************************************************************************)
(* Configuration::Get: the value of a recognised key, NotFound otherwise.  *)
(***************************************************************************)
ConfigKeys == {ov_device_id, ov_num_streams, ov_disable_transformations}

ConfigGet(m_cfg, name) ==
    CASE name = ov_device_id -> Value(<<ToString(m_cfg.device_id)>>)
      [] name = ov_num_streams -> Value(<<ToString(m_cfg.streams)>>)
      [] name = ov_disable_transformations ->
           Value(<<ToString(m_cfg.disable_transformations)>>)
      [] OTHER -> Failure("NotFound")

(***************************************************************************)
(* CompiledModel::get_property                                              *)
(***************************************************************************)
default_ro_properties ==
    <<ov_model_name, ov_supported_properties, ov_execution_devices, ov_loaded_from_cache,
      ov_optimal_number_of_infer_requests>>
default_rw_properties == <<ov_device_id, ov_enable_profiling>>
streamExecutorConfigKeys == <<ov_num_streams>>
DeviceName == "TEMPLATE"

get_property_defaulting(obj, name) ==
    CASE name = SUPPORTED_METRICS ->
           Value(default_ro_properties \o <<SUPPORTED_METRICS, SUPPORTED_CONFIG_KEYS>>)
      [] name = SUPPORTED_CONFIG_KEYS ->
           Value(default_rw_properties \o streamExecutorConfigKeys)
      [] name = ov_model_name -> Value(<<obj.m_model.name>>)
      [] name = ov_loaded_from_cache -> Value(<<ToString(obj.m_loaded_from_cache)>>)
      [] name = ov_execution_devices ->
           Value(<<DeviceName, ".", ToString(obj.m_cfg.device_id)>>)
      [] name = ov_optimal_number_of_infer_requests ->
           Value(<<ToString(obj.m_cfg.streams)>>)
      [] name = ov_supported_properties ->
           Value(default_ro_properties \o default_rw_properties)
      [] name \in ConfigKeys -> ConfigGet(obj.m_cfg, name)
      [] OTHER -> Value(<<>>)

get_property(obj, name) ==
    CASE name = SUPPORTED_METRICS ->
           Value(default_ro_properties \o <<SUPPORTED_METRICS, SUPPORTED_CONFIG_KEYS>>)
      [] name = SUPPORTED_CONFIG_KEYS ->
           Value(default_rw_properties \o streamExecutorConfigKeys)
      [] name = ov_model_name -> Value(<<obj.m_model.name>>)
      [] name = ov_loaded_from_cache -> Value(<<ToString(obj.m_loaded_from_cache)>>)
      [] name = ov_execution_devices ->
           Value(<<DeviceName, ".", ToString(obj.m_cfg.device_id)>>)
      [] name = ov_optimal_number_of_infer_requests ->
           Value(<<ToString(obj.m_cfg.streams)>>)
      [] name = ov_supported_properties ->
           Value(default_ro_properties \o default_rw_properties)
      [] OTHER -> ConfigGet(obj.m_cfg, name)

(***************************************************************************)
(* CompiledModel::set_property: OPENVINO_NOT_IMPLEMENTED, whatever the map *)
(* holds.  A property map is a set of <<key, value>> pairs.                 *)
(***************************************************************************)
PropertyMaps ==
    {{}, {<<ov_device_id, 0>>}, {<<ov_device_id, 1>>}, {<<ov_num_streams, 2>>},
     {<<"nonexistent_key_xyz", 1>>}}

set_property_applying(obj, properties) ==
    IF \E kv \in properties : kv[1] = ov_device_id
    THEN LET kv == CHOOSE x \in properties : x[1] = ov_device_id IN
         [error |-> "none", obj |-> [obj EXCEPT !.m_cfg.device_id = kv[2]]]
    ELSE [error |-> "NotImplemented", obj |-> obj]

set_property(obj, properties) == [error |-> "NotImplemented", obj |-> obj]

(***************************************************************************)
(* Bytes.  A 64-bit length is written as its 8 bytes, low byte first       *)
(* (the host's order), and read back the same way.                          *)
(***************************************************************************)
RECURSIVE ShiftRight8(_, _)
ShiftRight8(n, k) == IF k = 0 THEN n ELSE ShiftRight8(n \div 256, k - 1)

U64Bytes(n) == [i \in 1..8 |-> ShiftRight8(n, i - 1) % 256]

(* Lengths of 2^24 and more do not occur in a stream this model writes;    *)
(* 2^24 stands for every such length.                                       *)
U64Value(b) ==
    IF \E i \in 4..8 : b[i] # 0 THEN 256 * 65536
    ELSE b[1] + 256 * b[2] + 65536 * b[3]

(***************************************************************************)
(* ov::pass::Serialize: the structural description (the name and one byte  *)
(* per operation between an opening and a closing byte) and the constants. *)
(***************************************************************************)
OpByte(op) == IF op = "add" THEN 97 ELSE 109
NameByte(name) == 110

Serialize(m_model) ==
    [xmlFile |-> <<60, NameByte(m_model.name)>>
                   \o [i \in 1..Len(m_model.ops) |-> OpByte(m_model.ops[i])]
                   \o <<62>>,
     binFile |-> m_model.consts]

(***************************************************************************)
(* Core::read_model: the graph of a structural description and its         *)
(* constants; a description that is not well formed is rejected.            *)
(***************************************************************************)
WellFormed(xml) ==
    /\ Len(xml) >= 3
    /\ xml[1] = 60
    /\ \E n \in Names : NameByte(n) = xml[2]
    /\ xml[Len(xml)] = 62
    /\ \A i \in 3..(Len(xml) - 1) : \E op \in Ops : OpByte(op) = xml[i]

read_model(xml, bin) ==
    [name |-> CHOOSE n \in Names : NameByte(n) = xml[2],
     ops |-> [i \in 1..(Len(xml) - 3) |-> CHOOSE op \in Ops : OpByte(op) = xml[i + 2]],
     consts |-> bin]

(***************************************************************************)
(* std::ostream::write on a sink that accepts `cap` bytes in all.  A write *)
(* on a stream that is not good stores nothing; a write the sink cannot    *)
(* take whole stores what fits and sets badbit; with badbit in the         *)
(* stream's exception mask that throws std::ios_base::failure.              *)
(***************************************************************************)
Sinks == [bytes : {<<>>}, cap : {0, 11, 20, 1000}, bad : {FALSE}, exceptions : BOOLEAN]

write(s, buf) ==
    IF s.bad THEN s
    ELSE IF Len(s.bytes) + Len(buf) <= s.cap
         THEN [s EXCEPT !.bytes = s.bytes \o buf]
         ELSE [s EXCEPT !.bytes = s.bytes \o SubSeq(buf, 1, s.cap - Len(s.bytes)),
                        !.bad = TRUE]

(* One statement of export_model: skipped once an exception is in flight. *)
WriteStep(st, buf) ==
    IF st.thrown THEN st
    ELSE LET s2 == write(st.sink, buf) IN
         [sink |-> s2, handed |-> Append(st.handed, buf),
          thrown |-> s2.bad /\ s2.exceptions]

(***************************************************************************)
(* CompiledModel::export_model                                              *)
(***************************************************************************)
IosFailure == "std::ios_base::failure"

ExportResult(st) ==
    [error |-> IF st.thrown THEN IosFailure ELSE "none",
     sink |-> st.sink, handed |-> st.handed]

export_model_u32(obj, model_stream) ==
    LET ser == Serialize(obj.m_model)
        s0 == [sink |-> model_stream, handed |-> <<>>, thrown |-> FALSE]
        s1 == WriteStep(s0, SubSeq(U64Bytes(Len(ser.xmlFile)), 1, 4))
        s2 == WriteStep(s1, ser.xmlFile)
        s3 == WriteStep(s2, SubSeq(U64Bytes(Len(ser.binFile)), 1, 4))
        s4 == WriteStep(s3, ser.binFile)
    IN ExportResult(s4)

export_model(obj, model_stream) ==
    LET ser == Serialize(obj.m_model)
        s0 == [sink |-> model_stream, handed |-> <<>>, thrown |-> FALSE]
        s1 == WriteStep(s0, U64Bytes(Len(ser.xmlFile)))
        s2 == WriteStep(s1, ser.xmlFile)
        s3 == WriteStep(s2, U64Bytes(Len(ser.binFile)))
        s4 == WriteStep(s3, ser.binFile)
    IN ExportResult(s4)

(***************************************************************************)
(* Plugin::import_model, up to the construction of the model: the two      *)
(* length-prefixed sections are read and the graph rebuilt; a truncated    *)
(* stream or a section length beyond the stream is a DeserializationError. *)
(***************************************************************************)
ReadFrame(bytes) ==
    LET n == Len(bytes)
        l1 == U64Value(SubSeq(bytes, 1, 8))
        l2 == U64Value(SubSeq(bytes, 9 + l1, 16 + l1))
        xml == SubSeq(bytes, 9, 8 + l1)
        bin == SubSeq(bytes, 17 + l1, 16 + l1 + l2)
    IN IF n < 8 THEN [ok |-> FALSE]
       ELSE IF n < 16 + l1 THEN [ok |-> FALSE]
       ELSE IF n < 16 + l1 + l2 THEN [ok |-> FALSE]
       ELSE IF ~WellFormed(xml) THEN [ok |-> FALSE]
       ELSE [ok |-> TRUE, model |-> read_model(xml, bin)]

(***************************************************************************)
(* Ownership.  The model is held through shared pointers: use_count is the *)
(* number of owners, and the model is destroyed when the last one goes.    *)
(* A request keeps the pointer it is constructed with for as long as it    *)
(* exists; an asynchronous request owns its internal synchronous request.  *)
(***************************************************************************)
(* `owners` is the use count of the pointer the request is given. *)
InferRequest(owners) == owners + 1

(* CompiledModel::create_sync_infer_request *)
create_sync_infer_request_raw(count) == [kind |-> "sync", use_count |-> count]

create_sync_infer_request(count) ==
    [kind |-> "sync", use_count |-> InferRequest(count)]

(***************************************************************************)
(* The executors, and the asynchronous request: its three stages, each     *)
(* with the executor it is scheduled on.                                    *)
(***************************************************************************)
Executors == {"task_executor", "m_waitExecutor", "callback_executor"}
get_task_executor == "task_executor"
m_waitExecutor == "m_waitExecutor"
get_callback_executor == "callback_executor"

AsyncInferRequest(request, taskExecutor, waitExecutor, callbackExecutor) ==
    [created |-> TRUE, inner |-> request, status |-> "Idle", callback |-> FALSE,
     pipeline |-> <<taskExecutor, waitExecutor, callbackExecutor>>,
     pending |-> 0, failed |-> FALSE, observed |-> "none"]

(* CompiledModel::create_infer_request *)
create_infer_request_swapped(count) ==
    LET internal_request == create_sync_infer_request(count) IN
    [kind |-> "async", use_count |-> internal_request.use_count,
     async_infer_request |->
        AsyncInferRequest(internal_request.kind, m_waitExecutor, get_task_executor,
                          get_callback_executor)]

create_infer_request(count) ==
    LET internal_request == create_sync_infer_request(count) IN
    [kind |-> "async", use_count |-> internal_request.use_count,
     async_infer_request |->
        AsyncInferRequest(internal_request.kind, get_task_executor, m_waitExecutor,
                          get_callback_executor)]

(* The number of tasks an executor runs at a time. *)
Workers(e) == IF e = "task_executor" THEN 2 ELSE 1

(***************************************************************************)
(* The state: the compiled model M and the imported model I, the exported  *)
(* stream, and a record of the last call and its outcome.                   *)
(***************************************************************************)
Slots == {"M", "I"}

Init ==
    /\ models = [s \in Slots |-> NoModel]
    /\ stream = [bytes |-> <<>>, cap |-> 0, bad |-> FALSE, exceptions |-> FALSE]
    /\ last = [op |-> "none"]
    /\ use_count = 1
    /\ holders = 1
    /\ requests = [r \in 1..MaxRequests |-> "none"]
    /\ destroyed = FALSE
    /\ areqs = [a \in 1..MaxAsync |-> [created |-> FALSE]]
    /\ queue = [e \in Executors |-> <<>>]
    /\ running = {}

(* The constructor called into `slot`, as Plugin::compile_model and        *)
(* Plugin::import_model call it.                                            *)
Construct(op, slot, g, cfg, lfc, tr) ==
    LET r == CompiledModel(g, cfg, lfc, tr) IN
    /\ models' = [models EXCEPT ![slot] = r.obj]
    /\ last' = [op |-> op, slot |-> slot, error |-> r.error, message |-> r.message,
                calls |-> r.calls, graph |-> g, cfg |-> cfg, tr |-> tr.outcome,
                source |-> stream.bytes]

(* compile(graph, config) *)
Compile ==
    /\ models.M = NoModel
    /\ \E g \in Graphs, cfg \in Configurations :
         \E tr \in Behaviours(g) : Construct("compile", "M", g, cfg, FALSE, tr)
    /\ UNCHANGED <<stream, lifeVars, asyncVars>>

(* one model constructed with either value of loaded_from_cache *)
Create ==
    /\ \A s \in Slots : models[s] = NoModel
    /\ \E g \in Graphs, cfg \in Configurations, lfc \in BOOLEAN :
         \E tr \in Behaviours(g) :
            Construct("compile", IF lfc THEN "I" ELSE "M", g, cfg, lfc, tr)
    /\ UNCHANGED <<stream, lifeVars, asyncVars>>

(* import(source, config) reading the exported stream *)
Import ==
    /\ models.I = NoModel
    /\ LET f == ReadFrame(stream.bytes) IN
       IF f.ok
       THEN \E cfg \in Configurations : \E tr \in Behaviours(f.model) :
               Construct("import", "I", f.model, cfg, TRUE, tr)
       ELSE /\ last' = [op |-> "import", slot |-> "I", error |-> "DeserializationError",
                        source |-> stream.bytes]
            /\ UNCHANGED models
    /\ UNCHANGED <<stream, lifeVars, asyncVars>>

(* export(sink) of either model into a fresh sink *)
Export ==
    /\ \E slot \in Slots, sink \in Sinks :
         /\ models[slot] # NoModel
         /\ LET r == export_model(models[slot], sink) IN
            /\ stream' = r.sink
            /\ last' = [op |-> "export", slot |-> slot, error |-> r.error,
                        handed |-> r.handed, graph |-> models[slot].m_model]
    /\ UNCHANGED <<models, lifeVars, asyncVars>>

GetProperty ==
    /\ \E slot \in Slots, name \in PropertyNames :
         /\ models[slot] # NoModel
         /\ last' = [op |-> "get_property", slot |-> slot, name |-> name,
                     result |-> get_property(models[slot], name)]
    /\ UNCHANGED <<models, stream, lifeVars, asyncVars>>

SetProperty ==
    /\ \E slot \in Slots, properties \in PropertyMaps :
         /\ models[slot] # NoModel
         /\ LET r == set_property(models[slot], properties) IN
            /\ models' = [models EXCEPT ![slot] = r.obj]
            /\ last' = [op |-> "set_property", slot |-> slot, error |-> r.error,
                        properties |-> properties]
    /\ UNCHANGED <<stream, lifeVars, asyncVars>>

Next == Compile \/ Export \/ Import

Spec == Init /\ [][Next]_vars

NextProps == Create \/ GetProperty \/ SetProperty

SpecProps == Init /\ [][NextProps]_vars


(***************************************************************************)
(* Claims about compile, import and export (Spec).                          *)
(***************************************************************************)

(* C1: whichever way the transformer fails during compile (legacy          *)
(* exception, standard exception, anything else), compile fails with the   *)
(* one kind ov::Exception carrying a message, no other failure kind leaves *)
(* compile, and no model is produced.                                       *)
C1_UniformCompilationError ==
    last.op = "compile" =>
        /\ last.error \in {"none", OvException}
        /\ (last.calls = 1 /\ last.tr \in TransformFailures) =>
              /\ last.error = OvException
              /\ last.message # <<>>
              /\ models[last.slot] = NoModel

C1_Witness ==
    /\ last.op = "compile"
    /\ last.calls = 1
    /\ last.tr = "unknown"
    /\ last.error = OvException
    /\ models.M = NoModel

(* C2: a model constructed by import (loaded_from_cache = true) has the    *)
(* transformer not invoked during its construction, whatever the           *)
(* configuration, and its graph is exactly the deserialized graph.          *)
C2_ImportAppliesNoTransformations ==
    (last.op = "import" /\ last.error # "DeserializationError") =>
        /\ last.calls = 0
        /\ last.error = "none" => get_runtime_model(models.I) = last.graph

(* C3: compile invokes the transformer exactly once when                   *)
(* disable_transformations is not set and not at all when it is set, and   *)
(* then the runtime graph is the caller's graph verbatim.                   *)
C3_TransformerInvocations ==
    last.op = "compile" =>
        IF last.cfg.disable_transformations
        THEN /\ last.calls = 0
             /\ last.error = "none"
             /\ get_runtime_model(models.M) = last.graph
        ELSE last.calls = 1

C3_Witness ==
    /\ last.op = "compile"
    /\ last.cfg.disable_transformations
    /\ last.graph.ops # <<>>
    /\ models.M # NoModel
    /\ get_runtime_model(models.M) = last.graph

(* The frame of a graph: the bytes export is to produce. *)
Frame(g) ==
    LET ser == Serialize(g) IN
    <<U64Bytes(Len(ser.xmlFile)), ser.xmlFile, U64Bytes(Len(ser.binFile)), ser.binFile>>

Flat(f) == f[1] \o f[2] \o f[3] \o f[4]

(* C6: an export that returns has handed to the sink, in this order, the   *)
(* 8-byte length of the structural payload, that payload, the 8-byte       *)
(* length of the constants payload and that payload, and nothing else; a   *)
(* sink that took every write holds 16 + len_struct + len_blob bytes.      *)
C6_ExportFraming ==
    (last.op = "export" /\ last.error = "none") =>
        LET ser == Serialize(last.graph) IN
        /\ last.handed = Frame(last.graph)
        /\ Len(last.handed[1]) = 8 /\ U64Value(last.handed[1]) = Len(ser.xmlFile)
        /\ Len(last.handed[3]) = 8 /\ U64Value(last.handed[3]) = Len(ser.binFile)
        /\ ~stream.bad =>
              /\ stream.bytes = Flat(last.handed)
              /\ Len(stream.bytes) = 16 + Len(ser.xmlFile) + Len(ser.binFile)

C6_Witness ==
    /\ last.op = "export"
    /\ last.error = "none"
    /\ ~stream.bad
    /\ last.graph.consts = <<>>
    /\ last.graph.ops # <<>>
    /\ Len(stream.bytes) = 16 + Len(Serialize(last.graph).xmlFile)

(* C7: importing the bytes export(M) produced yields a model whose graph   *)
(* equals M's graph and whose loaded_from_cache reads true, while M's own  *)
(* loaded_from_cache still reads the value M was constructed with.          *)
C7_RoundTrip ==
    (/\ last.op = "import"
     /\ last.error = "none"
     /\ models.M # NoModel
     /\ last.source = Flat(Frame(get_runtime_model(models.M)))) =>
        /\ get_runtime_model(models.I) = get_runtime_model(models.M)
        /\ get_property(models.I, ov_loaded_from_cache) = Value(<<"TRUE">>)
        /\ get_property(models.M, ov_loaded_from_cache) = Value(<<"FALSE">>)

(* C8: when a write to the sink fails during export, export fails; it      *)
(* never returns normally leaving a truncated artifact in the sink.         *)
C8_ExportFailsOnWriteFailure ==
    (last.op = "export" /\ stream.bad) => last.error # "none"

(***************************************************************************)
(* Claims about the properties (SpecProps).                                 *)
(***************************************************************************)

(* C4: set_property always fails with NotImplemented, whatever the map,   *)
(* and leaves every model's configuration, graph and loaded_from_cache     *)
(* flag, hence every get_property result, as they were.                     *)
C4_SetPropertyFrozen ==
    [][(last'.op = "set_property" /\ last' # last) =>
          /\ last'.error = "NotImplemented"
          /\ models' = models
          /\ \A s \in Slots : models[s] # NoModel =>
                \A name \in PropertyNames :
                    get_property(models'[s], name) = get_property(models[s], name)]_vars

C4_Witness ==
    /\ last.op = "set_property"
    /\ last.error = "NotImplemented"
    /\ last.properties = {<<ov_device_id, 1>>}
    /\ models[last.slot].m_cfg.device_id = 0

FixedReadOnly ==
    {ov_model_name, ov_supported_properties, ov_execution_devices, ov_loaded_from_cache,
     ov_optimal_number_of_infer_requests}

(* C5 as stated: get_property answers itself only the five read-only      *)
(* names; for every other name its outcome is that of config.get(name).    *)
C5_OnlyFiveAnswered ==
    (last.op = "get_property" /\ last.name \notin FixedReadOnly) =>
        last.result = ConfigGet(models[last.slot].m_cfg, last.name)

(* C5 amended: get_property answers itself the five read-only names and   *)
(* the two metric names SUPPORTED_METRICS and SUPPORTED_CONFIG_KEYS; for   *)
(* every other name its outcome is that of config.get(name), so such a     *)
(* name the configuration does not recognise fails with NotFound.           *)
C5_SevenAnswered ==
    last.op = "get_property" =>
        IF last.name \in FixedReadOnly \cup {SUPPORTED_METRICS, SUPPORTED_CONFIG_KEYS}
        THEN last.result.ok
        ELSE /\ last.result = ConfigGet(models[last.slot].m_cfg, last.name)
             /\ last.name \notin ConfigKeys =>
                   (~last.result.ok /\ last.result.error = "NotFound")

C5_Witness ==
    /\ last.op = "get_property"
    /\ last.name = "nonexistent_key_xyz"
    /\ last.result.error = "NotFound"

(***************************************************************************)
(* SpecLife: one model, its external holders and its requests.              *)
(***************************************************************************)
Existing == {r \in 1..MaxRequests : requests[r] # "none"}

(* an external holder copies its pointer *)
Share ==
    /\ holders > 0
    /\ holders < MaxHolders
    /\ holders' = holders + 1
    /\ use_count' = use_count + 1
    /\ UNCHANGED <<requests, destroyed, mainVars, asyncVars>>

(* an external holder drops its pointer *)
ReleaseHolder ==
    /\ holders > 0
    /\ holders' = holders - 1
    /\ use_count' = use_count - 1
    /\ destroyed' = (destroyed \/ use_count' = 0)
    /\ UNCHANGED <<requests, mainVars, asyncVars>>

(* Whoever calls the model reaches it through a holder or a request. *)
Reachable == ~destroyed /\ (holders > 0 \/ Existing # {})

CreateSyncRequest ==
    /\ Reachable
    /\ \E r \in 1..MaxRequests :
         /\ requests[r] = "none"
         /\ LET made == create_sync_infer_request(use_count) IN
            /\ requests' = [requests EXCEPT ![r] = made.kind]
            /\ use_count' = made.use_count
    /\ UNCHANGED <<holders, destroyed, mainVars, asyncVars>>

CreateAsyncRequest ==
    /\ Reachable
    /\ \E r \in 1..MaxRequests :
         /\ requests[r] = "none"
         /\ LET made == create_infer_request(use_count) IN
            /\ requests' = [requests EXCEPT ![r] = made.kind]
            /\ use_count' = made.use_count
    /\ UNCHANGED <<holders, destroyed, mainVars, asyncVars>>

(* a request is released, and with it its pointer to the model *)
ReleaseRequest ==
    /\ \E r \in Existing :
         /\ requests' = [requests EXCEPT ![r] = "none"]
         /\ use_count' = use_count - 1
         /\ destroyed' = (destroyed \/ use_count' = 0)
    /\ UNCHANGED <<holders, mainVars, asyncVars>>

NextLife ==
    Share \/ ReleaseHolder \/ CreateSyncRequest \/ CreateAsyncRequest \/ ReleaseRequest

SpecLife == Init /\ [][NextLife]_vars

(* C9: the model is never destroyed while a request created from it        *)
(* exists, and it is destroyed exactly when the last request and the last  *)
(* external holder have released it.                                        *)
C9_RequestsKeepModelAlive ==
    /\ Existing # {} => ~destroyed
    /\ destroyed <=> (holders = 0 /\ Existing = {})
    /\ use_count = holders + Cardinality(Existing)

C9_Witness ==
    /\ holders = 0
    /\ ~destroyed
    /\ \E r \in Existing : requests[r] = "async"
    /\ \E r \in Existing : requests[r] = "sync"

(***************************************************************************)
(* SpecAsync: asynchronous requests and the executors their stages run on. *)
(***************************************************************************)
Tasks == (1..MaxAsync) \X (1..3)

Queued(e) == {queue[e][i] : i \in 1..Len(queue[e])}
RunningOn(e) == {t \in Tasks : <<e, t>> \in running}

Submit(q, e, t) == [q EXCEPT ![e] = Append(q[e], t)]

CreateAsync ==
    /\ \E a \in 1..MaxAsync :
         /\ ~areqs[a].created
         /\ areqs' = [areqs EXCEPT ![a] = create_infer_request(1).async_infer_request]
    /\ UNCHANGED <<queue, running, mainVars, lifeVars>>

SetCallback ==
    /\ \E a \in 1..MaxAsync :
         /\ areqs[a].created
         /\ areqs[a].pending = 0
         /\ ~areqs[a].callback
         /\ areqs' = [areqs EXCEPT ![a].callback = TRUE]
    /\ UNCHANGED <<queue, running, mainVars, lifeVars>>

(* start(): stage 1 goes to its executor *)
Start ==
    /\ \E a \in 1..MaxAsync :
         /\ areqs[a].created
         /\ areqs[a].status # "Running"
         /\ areqs[a].pending = 0
         /\ areqs' = [areqs EXCEPT ![a].status = "Running", ![a].pending = 1,
                                   ![a].failed = FALSE, ![a].observed = "none"]
         /\ queue' = Submit(queue, areqs[a].pipeline[1], <<a, 1>>)
    /\ UNCHANGED <<running, mainVars, lifeVars>>

(* an executor with a free worker takes the task at the head of its queue *)
Pick ==
    /\ \E e \in Executors :
         /\ queue[e] # <<>>
         /\ Cardinality(RunningOn(e)) < Workers(e)
         /\ running' = running \cup {<<e, Head(queue[e])>>}
         /\ queue' = [queue EXCEPT ![e] = Tail(queue[e])]
    /\ UNCHANGED <<areqs, mainVars, lifeVars>>

(* stage 1, infer(), ends well or badly; stage 2 follows on its executor *)
FinishInfer ==
    /\ \E e \in Executors, a \in 1..MaxAsync, bad \in BOOLEAN :
         /\ <<e, <<a, 1>>>> \in running
         /\ running' = running \ {<<e, <<a, 1>>>>}
         /\ areqs' = [areqs EXCEPT ![a].failed = bad, ![a].pending = 2]
         /\ queue' = Submit(queue, areqs[a].pipeline[2], <<a, 2>>)
    /\ UNCHANGED <<mainVars, lifeVars>>

(* stage 2 sets the terminal status and resolves the waiters; the callback *)
(* stage follows if a callback is registered                                *)
FinishWait ==
    /\ \E e \in Executors, a \in 1..MaxAsync :
         /\ <<e, <<a, 2>>>> \in running
         /\ running' = running \ {<<e, <<a, 2>>>>}
         /\ areqs' = [areqs EXCEPT
                ![a].status = IF areqs[a].failed THEN "Failed" ELSE "Completed",
                ![a].pending = IF areqs[a].callback THEN 3 ELSE 0]
         /\ queue' = IF areqs[a].callback
                     THEN Submit(queue, areqs[a].pipeline[3], <<a, 3>>)
                     ELSE queue
    /\ UNCHANGED <<mainVars, lifeVars>>

(* stage 3: the callback sees the status *)
FinishCallback ==
    /\ \E e \in Executors, a \in 1..MaxAsync :
         /\ <<e, <<a, 3>>>> \in running
         /\ running' = running \ {<<e, <<a, 3>>>>}
         /\ areqs' = [areqs EXCEPT ![a].observed = areqs[a].status, ![a].pending = 0]
    /\ UNCHANGED <<queue, mainVars, lifeVars>>

NextAsync ==
    CreateAsync \/ SetCallback \/ Start \/ Pick \/ FinishInfer \/ FinishWait
        \/ FinishCallback

SpecAsync == Init /\ [][NextAsync]_vars

StageExecutor(stage) ==
    CASE stage = 1 -> "task_executor"
      [] stage = 2 -> "m_waitExecutor"
      [] stage = 3 -> "callback_executor"

InFlight(a) ==
    UNION {{<<e, t[2]>> : t \in {u \in Queued(e) \cup RunningOn(e) : u[1] = a}} :
              e \in Executors}

====
